---- MODULE Spec2Model ----
(***************************************************************************)
(* A model of the QRZ.com XML client (src/src/client.rs): the session      *)
(* state shared by the calls made on one client, the login, the            *)
(* authenticated request and the lookup operations built on them.          *)
(*                                                                         *)
(* Text is a sequence of one-character strings, so that the substring      *)
(* tests and the case conversion of the code are computed, not assumed.    *)
(* An Option<T> is a sequence of length 0 (None) or 1 (Some(v)).           *)
(* The base URL of the configuration is taken to be well formed, so        *)
(* build_url never fails with UrlParsing.                                  *)
(*                                                                         *)
(* Spec and SpecSession run one caller, SpecConc several calls at once,    *)
(* SpecFresh several calls against a provider whose logins grant fresh     *)
(* tokens. A call may be abandoned wherever it is suspended (cancel).      *)
(* SpecState drives a SessionState on its own, SpecError the predicates    *)
(* of QrzXmlError (src/src/error.rs) and SpecTimezone                      *)
(* DxccInfo::timezone_hours (src/src/types.rs).                            *)
(***************************************************************************)
EXTENDS Integers, Sequences, FiniteSets, TLC

(* ------------------------------ bounds --------------------------------- *)
\* Number of tasks that may call into the one client.
NumTasks == 2

Tasks == 1..NumTasks

(* ------------------------------- text ---------------------------------- *)
None == <<>>
Some(v) == <<v>>
is_some(o) == Len(o) = 1
unwrap(o) == o[1]

\* str::contains: sub occurs in s as a contiguous run of characters.
contains(s, sub) ==
  \E i \in 0..(Len(s) - Len(sub)) : SubSeq(s, i + 1, i + Len(sub)) = sub

LowerLetters == <<"a","b","c","d","e","f","g","h","i","j","k","l","m","n","o","p","q","r","s","t","u","v","w","x","y","z">>
UpperLetters == <<"A","B","C","D","E","F","G","H","I","J","K","L","M","N","O","P","Q","R","S","T","U","V","W","X","Y","Z">>
Digits == <<"0","1","2","3","4","5","6","7","8","9">>

upper_char(c) ==
  IF \E i \in 1..Len(LowerLetters) : LowerLetters[i] = c
  THEN UpperLetters[CHOOSE i \in 1..Len(LowerLetters) : LowerLetters[i] = c]
  ELSE c

\* str::to_uppercase on the (ASCII) callsigns of the model.
to_uppercase(s) == [i \in 1..Len(s) |-> upper_char(s[i])]

\* u32::to_string: the decimal digits of n, most significant first.
RECURSIVE to_string(_)
to_string(n) ==
  IF n < 10 THEN <<Digits[n + 1]>>
  ELSE to_string(n \div 10) \o <<Digits[(n % 10) + 1]>>

\* The phrases the client looks for in the provider's error strings.
PhraseSessionTimeout == <<"S","e","s","s","i","o","n"," ","T","i","m","e","o","u","t">>
PhraseSession == <<"s","e","s","s","i","o","n">>
PhraseNotFound == <<"n","o","t"," ","f","o","u","n","d">>
PhraseConnectionRefused == <<"C","o","n","n","e","c","t","i","o","n"," ","r","e","f","u","s","e","d">>
PhrasePassword == <<"p","a","s","s","w","o","r","d">>
PhraseUsername == <<"u","s","e","r","n","a","m","e">>

(* ------------------------ the provider's answers ----------------------- *)
\* Error strings a response may carry in its Session block.
ErrSessionTimeout == PhraseSessionTimeout
ErrInvalidSessionKey == <<"I","n","v","a","l","i","d"," ","s","e","s","s","i","o","n"," ","k","e","y">>
ErrNotFoundCapital == <<"N","o","t"," ","f","o","u","n","d",":"," ","A","A","7">>
ErrCallsignNotFound == <<"C","a","l","l","s","i","g","n"," ","n","o","t"," ","f","o","u","n","d">>
ErrSessionNotFound == <<"s","e","s","s","i","o","n"," ","n","o","t"," ","f","o","u","n","d">>
ErrConnectionRefused == PhraseConnectionRefused
ErrCredentials == <<"U","s","e","r","n","a","m","e","/","p","a","s","s","w","o","r","d"," ","i","n","c","o","r","r","e","c","t">>
ErrRefusedPassword == <<"C","o","n","n","e","c","t","i","o","n"," ","r","e","f","u","s","e","d",":"," ","p","a","s","s","w","o","r","d">>
ErrInvalidUsername == <<"I","n","v","a","l","i","d"," ","u","s","e","r","n","a","m","e">>
ErrEmpty == <<>>

ErrorStrings ==
  { ErrSessionTimeout, ErrInvalidSessionKey, ErrNotFoundCapital,
    ErrCallsignNotFound, ErrSessionNotFound, ErrConnectionRefused,
    ErrCredentials, ErrRefusedPassword, ErrInvalidUsername, ErrEmpty }

\* The keys a response may carry; <Key></Key> decodes to an empty string.
EmptyKey == ""
Keys == {"K1", "K2"}
KeysOrEmpty == {"K1", EmptyKey}
Counts == {42, 43}
SubExps == {"Wed Jan 1 2025"}

Phrases ==
  { PhraseSessionTimeout, PhraseSession, PhraseNotFound,
    PhraseConnectionRefused, PhrasePassword, PhraseUsername }

\* contains, worked out once for every error string and phrase of the model.
Contains == [e \in ErrorStrings |-> [p \in Phrases |-> contains(e, p)]]

\* The Callsign and DXCC records a response may carry.
CallsignRecord == [call |-> <<"A","A","7">>]
DxccRecord == [dxcc |-> 291, name |-> "United States"]

Opt(S) == {None} \cup {Some(v) : v \in S}

\* QrzXmlResponse: the Session block (SessionInfo, without gm_time and
\* message, which the client never reads) and at most one of the two records.
NoBody == [callsign |-> None, dxcc |-> None]
Bodies ==
  { NoBody,
    [callsign |-> Some(CallsignRecord), dxcc |-> None],
    [callsign |-> None, dxcc |-> Some(DxccRecord)] }

ResponsesOf(K, C, S, E, B) ==
  { [session |-> s, callsign |-> b.callsign, dxcc |-> b.dxcc] :
      s \in [key : K, count : C, sub_exp : S, error : E], b \in B }

\* What one HTTP round trip ends in: a transport failure, a body that does
\* not parse, or a decoded response.
OutcomesOf(R) ==
  { [tag |-> "Network"], [tag |-> "XmlParsing"] }
    \cup { [tag |-> "Decoded", resp |-> r] : r \in R }

\* The answers of the provider when the error strings are what matters:
\* every error string, with and without a key (which may be empty) and a
\* count.
LoginOutcomes ==
  OutcomesOf(ResponsesOf(Opt(KeysOrEmpty), Opt({42}), {None}, Opt(ErrorStrings), {NoBody}))
RequestOutcomes ==
  OutcomesOf(ResponsesOf(Opt(KeysOrEmpty), Opt({42}), {None}, Opt(ErrorStrings), Bodies))

\* The answers of the provider when the session fields are what matters:
\* every key, count and expiry, with few error strings (one that
\* speaks of the session and, for a request, one that does not).
SessionLoginOutcomes ==
  OutcomesOf(ResponsesOf(Opt(Keys), Opt(Counts), Opt(SubExps),
                         Opt({ErrSessionTimeout}), {NoBody}))
SessionRequestOutcomes ==
  OutcomesOf(ResponsesOf(Opt(Keys), Opt(Counts), Opt(SubExps),
                         Opt({ErrSessionTimeout, ErrCredentials}),
                         {NoBody, [callsign |-> Some(CallsignRecord), dxcc |-> None]}))

\* The answers of the provider when the interleaving of the calls is what
\* matters, all of them decoded: a login is granted one of two keys; a
\* request is answered with a record and a key, or with "Session Timeout"
\* and no key.
DecodedOf(R) == { [tag |-> "Decoded", resp |-> r] : r \in R }
ConcLoginOutcomes ==
  DecodedOf(ResponsesOf({Some(k) : k \in Keys}, {None}, {None}, {None}, {NoBody}))
ConcRequestOutcomes ==
  DecodedOf(ResponsesOf({Some("K1")}, {None}, {None}, {None}, Bodies \ {NoBody})
            \cup ResponsesOf({None}, {None}, {None}, {Some(ErrSessionTimeout)}, {NoBody}))

NoOutcome == [tag |-> "NoResponse"]

\* What the caller of an abandoned call receives: nothing.
Abandoned == [tag |-> "Abandoned"]

\* The inputs of the lookups.
Callsigns == { <<>>, <<"a","a","7">>, <<"A","A","7">> }
Entities == { 7, 291 }

(* ------------------------------ results -------------------------------- *)
Ok(v) == [ok |-> TRUE, kind |-> "Ok", data |-> v]
Err(kind, v) == [ok |-> FALSE, kind |-> kind, data |-> v]
NoResult == [ok |-> FALSE, kind |-> "Pending", data |-> <<>>]

(* --------------------------- SessionState ------------------------------ *)
new_session == [key |-> None, count |-> None, sub_exp |-> None]

\* Faulty variant: the count of the response is not taken over.
update_without_count(st, si) ==
  [key |-> IF is_some(si.key) THEN si.key ELSE st.key,
   count |-> st.count,
   sub_exp |-> IF is_some(si.sub_exp) THEN si.sub_exp ELSE st.sub_exp]

\* Faulty variant: a token already stored is not replaced.
update_key_if_absent(st, si) ==
  [key |-> IF is_some(si.key) /\ ~is_some(st.key) THEN si.key ELSE st.key,
   count |-> IF is_some(si.count) THEN si.count ELSE st.count,
   sub_exp |-> IF is_some(si.sub_exp) THEN si.sub_exp ELSE st.sub_exp]

\* Faulty variant: a block without a key takes the stored token away.
update_key_always(st, si) ==
  [key |-> si.key,
   count |-> IF is_some(si.count) THEN si.count ELSE st.count,
   sub_exp |-> IF is_some(si.sub_exp) THEN si.sub_exp ELSE st.sub_exp]

update_from_session_info(st, si) ==
  [key |-> IF is_some(si.key) THEN si.key ELSE st.key,
   count |-> IF is_some(si.count) THEN si.count ELSE st.count,
   sub_exp |-> IF is_some(si.sub_exp) THEN si.sub_exp ELSE st.sub_exp]

has_valid_session(s) == is_some(s.key)

clear(st) == [key |-> None, count |-> None, sub_exp |-> None]

session_info_of(st) == Some(<<st.count, st.sub_exp>>)

(* ------------------------ request classification ----------------------- *)
\* make_request: the transport and the decoder.
make_request(o) ==
  CASE o.tag = "Network" -> Err("Network", <<>>)
    [] o.tag = "XmlParsing" -> Err("XmlParsing", <<>>)
    [] OTHER -> Ok(o.resp)

\* Faulty variant: the credentials are looked for before "Connection refused".
login_check_credentials_first(response) ==
  LET session_info == response.session IN
  IF is_some(session_info.error)
  THEN LET error == unwrap(session_info.error) IN
       IF Contains[error][PhrasePassword] \/ Contains[error][PhraseUsername]
       THEN Err("AuthenticationFailed", error)
       ELSE IF Contains[error][PhraseConnectionRefused]
       THEN Err("ConnectionRefused", <<>>)
       ELSE Err("ApiError", error)
  ELSE IF ~has_valid_session(session_info)
  THEN Err("NoSessionKey", <<>>)
  ELSE Ok(session_info)

\* login, from the decoded response to the value it returns.
login_check(response) ==
  LET session_info == response.session IN
  IF is_some(session_info.error)
  THEN LET error == unwrap(session_info.error) IN
       IF Contains[error][PhraseConnectionRefused]
       THEN Err("ConnectionRefused", <<>>)
       ELSE IF Contains[error][PhrasePassword] \/ Contains[error][PhraseUsername]
       THEN Err("AuthenticationFailed", error)
       ELSE Err("ApiError", error)
  ELSE IF ~has_valid_session(session_info)
  THEN Err("NoSessionKey", <<>>)
  ELSE Ok(session_info)

\* Faulty variant: the key of the response is checked before its error string.
request_check_key_first(response) ==
  LET s == response.session IN
  IF ~has_valid_session(s)
  THEN Err("SessionExpired", <<>>)
  ELSE IF is_some(s.error)
     /\ (Contains[unwrap(s.error)][PhraseSessionTimeout]
         \/ Contains[unwrap(s.error)][PhraseSession])
  THEN Err("SessionExpired", <<>>)
  ELSE IF is_some(s.error) /\ ~Contains[unwrap(s.error)][PhraseNotFound]
  THEN Err("ApiError", unwrap(s.error))
  ELSE Ok(response)

\* Faulty variant: the key of the response is not checked.
request_check_no_key(response) ==
  LET s == response.session IN
  IF is_some(s.error)
     /\ (Contains[unwrap(s.error)][PhraseSessionTimeout]
         \/ Contains[unwrap(s.error)][PhraseSession])
  THEN Err("SessionExpired", <<>>)
  ELSE IF is_some(s.error) /\ ~Contains[unwrap(s.error)][PhraseNotFound]
  THEN Err("ApiError", unwrap(s.error))
  ELSE Ok(response)

\* make_authenticated_request, from the decoded response to the value it
\* returns (the session state has been updated before).
request_check(response) ==
  LET s == response.session IN
  IF is_some(s.error)
     /\ (Contains[unwrap(s.error)][PhraseSessionTimeout]
         \/ Contains[unwrap(s.error)][PhraseSession])
  THEN Err("SessionExpired", <<>>)
  ELSE IF is_some(s.error) /\ ~Contains[unwrap(s.error)][PhraseNotFound]
  THEN Err("ApiError", unwrap(s.error))
  ELSE IF ~has_valid_session(s)
  THEN Err("SessionExpired", <<>>)
  ELSE Ok(response)

\* lookup_callsign, from the response it accepted to its result.
callsign_match(response, callsign) ==
  IF is_some(response.callsign)
  THEN Ok(unwrap(response.callsign))
  ELSE IF is_some(response.session.error)
  THEN IF Contains[unwrap(response.session.error)][PhraseNotFound]
       THEN Err("CallsignNotFound", callsign)
       ELSE Err("ApiError", unwrap(response.session.error))
  ELSE Err("UnexpectedResponse", <<>>)

\* Faulty variant: an absent record is DxccNotFound with or without an error.
dxcc_match_always_not_found(response, entity) ==
  IF is_some(response.dxcc)
  THEN Ok(unwrap(response.dxcc))
  ELSE Err("DxccNotFound", entity)

\* lookup_dxcc_entity and lookup_dxcc_by_callsign, likewise.
dxcc_match(response, entity) ==
  IF is_some(response.dxcc)
  THEN Ok(unwrap(response.dxcc))
  ELSE IF is_some(response.session.error)
  THEN Err("DxccNotFound", entity)
  ELSE Err("UnexpectedResponse", <<>>)

(* ------------------------------- state --------------------------------- *)
VARIABLES
  session,    \* the client's SessionState, behind the RwLock
  pc,         \* where each task's call stands
  op,         \* the operation each task is in
  input,      \* the argument the operation was called with
  param,      \* the local `callsign` / `entity_str` of the lookup
  attempt,    \* 1 in lookup_callsign's first request, 2 in its retry
  ctx,        \* who called the login in flight
  result,     \* what the call returned
  trace,      \* what the call did so far: logins, requests, clears, answers
  last,       \* the outcome of the call's latest HTTP round trip
  netUsed,    \* whether the client has sent any HTTP request yet
  held,       \* the guard of the session lock each task holds between steps
  applied,    \* SessionState alone: the Session blocks applied since the last clear
  arg,        \* a function alone: the value it is applied to
  out         \* a function alone: what it returned

vars == <<session, pc, op, input, param, attempt, ctx, result, trace, last, netUsed, held,
          applied, arg, out>>

\* The client after QrzXmlClient::new: nothing stored, no call under way.
ClientInit ==
  /\ session = new_session
  /\ pc = [t \in Tasks |-> "idle"]
  /\ op = [t \in Tasks |-> "none"]
  /\ input = [t \in Tasks |-> <<>>]
  /\ param = [t \in Tasks |-> <<>>]
  /\ attempt = [t \in Tasks |-> 1]
  /\ ctx = [t \in Tasks |-> "none"]
  /\ result = [t \in Tasks |-> NoResult]
  /\ trace = [t \in Tasks |-> <<>>]
  /\ last = [t \in Tasks |-> NoOutcome]
  /\ netUsed = FALSE
  /\ held = [t \in Tasks |-> "none"]

NoArg == <<>>
NoOut == <<>>

Init ==
  /\ ClientInit
  /\ applied = <<>>
  /\ arg = NoArg
  /\ out = NoOut

(* -------------------------- the call's events -------------------------- *)
EvLogin == [ev |-> "login"]
EvClear == [ev |-> "clear"]
EvRequest(key, t) ==
  [ev |-> "request", s |-> key,
   name |-> IF op[t] = "lookup_callsign" THEN "callsign" ELSE "dxcc",
   value |-> param[t]]
EvAnswer(of, o, res) ==
  [ev |-> "answer", of |-> of, res |-> res.kind,
   error |-> IF o.tag = "Decoded" THEN o.resp.session.error ELSE None,
   key |-> IF o.tag = "Decoded" THEN o.resp.session.key ELSE None]

sends(evs) == \E i \in 1..Len(evs) : evs[i].ev \in {"login", "request"}

\* One step of task t inside a call: its new place, result, attempt and
\* login context, the events it adds, the session state it leaves and the
\* outcome it has just received.
Move(t, p, res, att, cx, evs, sess, o) ==
  /\ pc' = [pc EXCEPT ![t] = p]
  /\ result' = [result EXCEPT ![t] = res]
  /\ attempt' = [attempt EXCEPT ![t] = att]
  /\ ctx' = [ctx EXCEPT ![t] = cx]
  /\ trace' = [trace EXCEPT ![t] = @ \o evs]
  /\ session' = sess
  /\ last' = [last EXCEPT ![t] = o]
  /\ netUsed' = (netUsed \/ sends(evs))
  /\ UNCHANGED <<applied, arg, out>>

\* tokio::sync::RwLock: read().await is granted while no other task holds the
\* write guard, write().await while no other task holds any guard.
read(t) == \A u \in Tasks \ {t} : held[u] # "write"
write(t) == \A u \in Tasks \ {t} : held[u] = "none"

\* The guard task t still holds when the step is over: "none" when the scope
\* of every guard it took has ended before its next await.
guard(t, g) == held' = [held EXCEPT ![t] = g]

\* A call begins: the operation, its argument and its request parameter.
Begin(t, o, i, p) ==
  /\ pc[t] = "idle"
  /\ op' = [op EXCEPT ![t] = o]
  /\ input' = [input EXCEPT ![t] = i]
  /\ param' = [param EXCEPT ![t] = p]

Same(t) == UNCHANGED <<op, input, param>>

(* ----------------------------- operations ------------------------------ *)
authenticate(t) ==
  /\ UNCHANGED held
  /\ Begin(t, "authenticate", <<>>, <<>>)
  /\ Move(t, "login_io", NoResult, 1, "authenticate", <<EvLogin>>, session, NoOutcome)

\* Faulty variant: reauthenticate logs in without clearing the session state.
reauthenticate_keeps(t) ==
  /\ write(t)
  /\ guard(t, "none")
  /\ Begin(t, "reauthenticate", <<>>, <<>>)
  /\ Move(t, "login_io", NoResult, 1, "authenticate", <<EvClear, EvLogin>>,
          session, NoOutcome)

reauthenticate(t) ==
  /\ write(t)
  /\ guard(t, "none")
  /\ Begin(t, "reauthenticate", <<>>, <<>>)
  /\ Move(t, "login_io", NoResult, 1, "authenticate", <<EvClear, EvLogin>>,
          clear(session), NoOutcome)

session_info(t) ==
  /\ read(t)
  /\ guard(t, "none")
  /\ Begin(t, "session_info", <<>>, <<>>)
  /\ Move(t, "done", Ok(session_info_of(session)), 1, "none", <<>>, session, NoOutcome)

is_authenticated(t) ==
  /\ read(t)
  /\ guard(t, "none")
  /\ Begin(t, "is_authenticated", <<>>, <<>>)
  /\ Move(t, "done", Ok(has_valid_session(session)), 1, "none", <<>>, session, NoOutcome)

\* Faulty variant: the callsign is sent and reported as it was given.
lookup_callsign_as_given(t, callsign) ==
  /\ UNCHANGED held
  /\ IF callsign = <<>>
     THEN /\ Begin(t, "lookup_callsign", callsign, <<>>)
          /\ Move(t, "done", Err("InvalidInput", <<>>), 1, "none", <<>>, session, NoOutcome)
     ELSE /\ Begin(t, "lookup_callsign", callsign, callsign)
          /\ Move(t, "mar_snapshot", NoResult, 1, "none", <<>>, session, NoOutcome)

\* Faulty variant: an empty callsign is not rejected.
lookup_callsign_unchecked(t, callsign) ==
  /\ UNCHANGED held
  /\ Begin(t, "lookup_callsign", callsign, to_uppercase(callsign))
  /\ Move(t, "mar_snapshot", NoResult, 1, "none", <<>>, session, NoOutcome)

lookup_callsign(t, callsign) ==
  /\ UNCHANGED held
  /\ IF callsign = <<>>
     THEN /\ Begin(t, "lookup_callsign", callsign, <<>>)
          /\ Move(t, "done", Err("InvalidInput", <<>>), 1, "none", <<>>, session, NoOutcome)
     ELSE /\ Begin(t, "lookup_callsign", callsign, to_uppercase(callsign))
          /\ Move(t, "mar_snapshot", NoResult, 1, "none", <<>>, session, NoOutcome)

lookup_dxcc_entity(t, entity) ==
  /\ UNCHANGED held
  /\ Begin(t, "lookup_dxcc_entity", entity, to_string(entity))
  /\ Move(t, "mar_snapshot", NoResult, 1, "none", <<>>, session, NoOutcome)

lookup_dxcc_by_callsign(t, callsign) ==
  /\ UNCHANGED held
  /\ IF callsign = <<>>
     THEN /\ Begin(t, "lookup_dxcc_by_callsign", callsign, <<>>)
          /\ Move(t, "done", Err("InvalidInput", <<>>), 1, "none", <<>>, session, NoOutcome)
     ELSE /\ Begin(t, "lookup_dxcc_by_callsign", callsign, to_uppercase(callsign))
          /\ Move(t, "mar_snapshot", NoResult, 1, "none", <<>>, session, NoOutcome)

\* The value make_authenticated_request returned goes to the operation that
\* called it: lookup_callsign's match on its first attempt, a `?` elsewhere.
\* Faulty variant: the retry is taken on every attempt, not only on the first.
retries_every_attempt(o, att, res) ==
  o = "lookup_callsign" /\ res.kind = "SessionExpired"

\* Faulty variant: every failure of the first attempt is retried.
retries_any_error(o, att, res) ==
  o = "lookup_callsign" /\ att = 1 /\ ~res.ok

retries(o, att, res) ==
  o = "lookup_callsign" /\ att = 1 /\ res.kind = "SessionExpired"

finish(o, res, p) ==
  IF ~res.ok THEN res
  ELSE IF o = "lookup_callsign" THEN callsign_match(res.data, p)
  ELSE dxcc_match(res.data, p)

mar_return(t, res, evs, sess, o) ==
  IF retries(op[t], attempt[t], res)
  THEN Move(t, "clear_session", NoResult, 1, "none", evs, sess, o)
  ELSE Move(t, "done", finish(op[t], res, param[t]), attempt[t], "none", evs, sess, o)

\* Faulty variant: the read guard of the snapshot is kept across the network
\* call that follows.
mar_snapshot_keeps_guard(t) ==
  /\ read(t)
  /\ guard(t, "read")
  /\ pc[t] = "mar_snapshot"
  /\ Same(t)
  /\ IF is_some(session.key)
     THEN Move(t, "req_io", NoResult, attempt[t], "none",
               <<EvRequest(unwrap(session.key), t)>>, session, last[t])
     ELSE Move(t, "login_io", NoResult, attempt[t], "request",
               <<EvLogin>>, session, last[t])

\* make_authenticated_request: the snapshot of the session key.
mar_snapshot(t) ==
  /\ read(t)
  /\ guard(t, "none")
  /\ pc[t] = "mar_snapshot"
  /\ Same(t)
  /\ IF is_some(session.key)
     THEN Move(t, "req_io", NoResult, attempt[t], "none",
               <<EvRequest(unwrap(session.key), t)>>, session, last[t])
     ELSE Move(t, "login_io", NoResult, attempt[t], "request",
               <<EvLogin>>, session, last[t])

\* Faulty variant: the Session block of a login response is stored before the
\* response is classified.
login_response_updates_first(t, o) ==
  /\ make_request(o).ok => write(t)
  /\ guard(t, "none")
  /\ pc[t] = "login_io"
  /\ Same(t)
  /\ LET r == make_request(o)
         res == IF r.ok THEN login_check(r.data) ELSE r
         evs == <<EvAnswer("login", o, res)>>
     IN IF res.ok
        THEN LET sess == update_from_session_info(session, res.data) IN
             CASE ctx[t] = "authenticate" ->
                    Move(t, "done", Ok(<<>>), attempt[t], "none", evs, sess, o)
               [] ctx[t] = "request" ->
                    Move(t, "mar_resnapshot", NoResult, attempt[t], "none", evs, sess, o)
               [] OTHER ->
                    Move(t, "mar_snapshot", NoResult, 2, "none", evs, sess, o)
        ELSE LET sess == IF r.ok THEN update_from_session_info(session, r.data.session)
                         ELSE session IN
             IF ctx[t] = "request"
             THEN mar_return(t, res, evs, sess, o)
             ELSE Move(t, "done", res, attempt[t], "none", evs, sess, o)

\* login: the response arrives, is classified and, if accepted, applied.
login_response(t, o) ==
  /\ (make_request(o).ok /\ login_check(make_request(o).data).ok) => write(t)
  /\ guard(t, "none")
  /\ pc[t] = "login_io"
  /\ Same(t)
  /\ LET r == make_request(o)
         res == IF r.ok THEN login_check(r.data) ELSE r
         evs == <<EvAnswer("login", o, res)>>
     IN IF res.ok
        THEN LET sess == update_from_session_info(session, res.data) IN
             CASE ctx[t] = "authenticate" ->
                    Move(t, "done", Ok(<<>>), attempt[t], "none", evs, sess, o)
               [] ctx[t] = "request" ->
                    Move(t, "mar_resnapshot", NoResult, attempt[t], "none", evs, sess, o)
               [] OTHER ->
                    Move(t, "mar_snapshot", NoResult, 2, "none", evs, sess, o)
        ELSE IF ctx[t] = "request"
        THEN mar_return(t, res, evs, session, o)
        ELSE Move(t, "done", res, attempt[t], "none", evs, session, o)

\* make_authenticated_request: the key is read again after its own login.
mar_resnapshot(t) ==
  /\ read(t)
  /\ guard(t, "none")
  /\ pc[t] = "mar_resnapshot"
  /\ Same(t)
  /\ IF is_some(session.key)
     THEN Move(t, "req_io", NoResult, attempt[t], "none",
               <<EvRequest(unwrap(session.key), t)>>, session, last[t])
     ELSE mar_return(t, Err("NoSessionKey", <<>>), <<>>, session, last[t])

\* Faulty variant: a response classified as a failure clears the session.
mar_response_forgets(t, o) ==
  /\ make_request(o).ok => write(t)
  /\ guard(t, "none")
  /\ pc[t] = "req_io"
  /\ Same(t)
  /\ LET r == make_request(o)
         res == IF r.ok THEN request_check(r.data) ELSE r
         sess == IF res.ok THEN update_from_session_info(session, r.data.session)
                 ELSE clear(session)
     IN mar_return(t, res, <<EvAnswer("request", o, res)>>, sess, o)

\* Faulty variant: the response is classified first and updates the session
\* state only when it is accepted.
mar_response_classifies_first(t, o) ==
  /\ make_request(o).ok => write(t)
  /\ guard(t, "none")
  /\ pc[t] = "req_io"
  /\ Same(t)
  /\ LET r == make_request(o)
         res == IF r.ok THEN request_check(r.data) ELSE r
         sess == IF res.ok THEN update_from_session_info(session, r.data.session)
                 ELSE session
     IN mar_return(t, res, <<EvAnswer("request", o, res)>>, sess, o)

\* make_authenticated_request: the response arrives, updates the session
\* state and is classified.
mar_response(t, o) ==
  /\ make_request(o).ok => write(t)
  /\ guard(t, "none")
  /\ pc[t] = "req_io"
  /\ Same(t)
  /\ LET r == make_request(o)
         res == IF r.ok THEN request_check(r.data) ELSE r
         sess == IF r.ok THEN update_from_session_info(session, r.data.session)
                 ELSE session
     IN mar_return(t, res, <<EvAnswer("request", o, res)>>, sess, o)

\* Faulty variant: the re-login is made without clearing the session state.
lookup_callsign_keep(t) ==
  /\ write(t)
  /\ guard(t, "none")
  /\ pc[t] = "clear_session"
  /\ Same(t)
  /\ Move(t, "login_io", NoResult, 1, "retry", <<EvClear, EvLogin>>,
          session, last[t])

\* lookup_callsign after SessionExpired: clear the session and log in.
lookup_callsign_clear(t) ==
  /\ write(t)
  /\ guard(t, "none")
  /\ pc[t] = "clear_session"
  /\ Same(t)
  /\ Move(t, "login_io", NoResult, 1, "retry", <<EvClear, EvLogin>>,
          clear(session), last[t])

\* The caller takes the result; the task is free for its next call.
return(t) ==
  /\ pc[t] = "done"
  /\ pc' = [pc EXCEPT ![t] = "idle"]
  /\ op' = [op EXCEPT ![t] = "none"]
  /\ input' = [input EXCEPT ![t] = <<>>]
  /\ param' = [param EXCEPT ![t] = <<>>]
  /\ attempt' = [attempt EXCEPT ![t] = 1]
  /\ ctx' = [ctx EXCEPT ![t] = "none"]
  /\ result' = [result EXCEPT ![t] = NoResult]
  /\ trace' = [trace EXCEPT ![t] = <<>>]
  /\ last' = [last EXCEPT ![t] = NoOutcome]
  /\ UNCHANGED <<session, netUsed, held, applied, arg, out>>

\* The places where a call is suspended at an await: on the lock or on the
\* network.
Suspended == {"mar_snapshot", "login_io", "mar_resnapshot", "req_io", "clear_session"}

\* Faulty variant: abandoning a call takes the token of the session back.
cancel_takes_token(t) ==
  /\ pc[t] \in Suspended
  /\ pc' = [pc EXCEPT ![t] = "idle"]
  /\ op' = [op EXCEPT ![t] = "none"]
  /\ input' = [input EXCEPT ![t] = <<>>]
  /\ param' = [param EXCEPT ![t] = <<>>]
  /\ attempt' = [attempt EXCEPT ![t] = 1]
  /\ ctx' = [ctx EXCEPT ![t] = "none"]
  /\ result' = [result EXCEPT ![t] = NoResult]
  /\ trace' = [trace EXCEPT ![t] = <<>>]
  /\ last' = [last EXCEPT ![t] = Abandoned]
  /\ guard(t, "none")
  /\ session' = [session EXCEPT !.key = None]
  /\ UNCHANGED <<netUsed, applied, arg, out>>

\* The caller abandons the call: its future is dropped where it is suspended,
\* with the guards it holds; nothing of the call is left but what it has
\* already written to the session state.
cancel(t) ==
  /\ pc[t] \in Suspended
  /\ pc' = [pc EXCEPT ![t] = "idle"]
  /\ op' = [op EXCEPT ![t] = "none"]
  /\ input' = [input EXCEPT ![t] = <<>>]
  /\ param' = [param EXCEPT ![t] = <<>>]
  /\ attempt' = [attempt EXCEPT ![t] = 1]
  /\ ctx' = [ctx EXCEPT ![t] = "none"]
  /\ result' = [result EXCEPT ![t] = NoResult]
  /\ trace' = [trace EXCEPT ![t] = <<>>]
  /\ last' = [last EXCEPT ![t] = Abandoned]
  /\ guard(t, "none")
  /\ UNCHANGED <<session, netUsed, applied, arg, out>>

(* --------------------------- specifications ---------------------------- *)
Step(t, LO, RO) ==
  \/ authenticate(t)
  \/ reauthenticate(t)
  \/ session_info(t)
  \/ is_authenticated(t)
  \/ \E c \in Callsigns : lookup_callsign(t, c)
  \/ \E n \in Entities : lookup_dxcc_entity(t, n)
  \/ \E c \in Callsigns : lookup_dxcc_by_callsign(t, c)
  \/ mar_snapshot(t)
  \/ \E o \in LO : login_response(t, o)
  \/ mar_resnapshot(t)
  \/ \E o \in RO : mar_response(t, o)
  \/ lookup_callsign_clear(t)
  \/ return(t)
  \/ cancel(t)

\* One caller, one call at a time on the client.
Caller == CHOOSE t \in Tasks : TRUE

Next == Step(Caller, LoginOutcomes, RequestOutcomes)

Spec == Init /\ [][Next]_vars

\* The same caller against the provider of the session fields.
NextSession == Step(Caller, SessionLoginOutcomes, SessionRequestOutcomes)

SpecSession == Init /\ [][NextSession]_vars

\* Every task calls into the client; the steps of the calls interleave at
\* the awaits and at the lock acquisitions.
NextConc == \E t \in Tasks : Step(t, ConcLoginOutcomes, ConcRequestOutcomes)

SpecConc == Init /\ [][NextConc]_vars

\* The tokens that the client or one of its calls under way still holds: the
\* stored one, those its requests carried and those its logins were granted.
Known ==
  (IF is_some(session.key) THEN {unwrap(session.key)} ELSE {})
    \cup UNION { { trace[t][i].s :
                     i \in {j \in 1..Len(trace[t]) : trace[t][j].ev = "request"} }
                 \cup { unwrap(trace[t][i].key) :
                     i \in {j \in 1..Len(trace[t]) :
                              trace[t][j].ev = "answer" /\ is_some(trace[t][j].key)} } :
                 t \in Tasks }

\* A provider that grants a fresh token at every login, and answers a request
\* with a record and the token the request carried, or with "Session Timeout"
\* and no token.
FreshKeys == Keys \cup {"K3"}
FreshLoginOutcomes ==
  DecodedOf(ResponsesOf({Some(k) : k \in FreshKeys \ Known}, {None}, {None}, {None}, {NoBody}))
SentBy(t) ==
  IF pc[t] = "req_io" THEN {Some(trace[t][Len(trace[t])].s)} ELSE {}
EchoRequestOutcomes(t) ==
  DecodedOf(ResponsesOf(SentBy(t), {None}, {None}, {None}, Bodies \ {NoBody})
            \cup ResponsesOf({None}, {None}, {None}, {Some(ErrSessionTimeout)}, {NoBody}))

\* Every task calls into the client of that provider.
StepFresh(t) ==
  \/ authenticate(t)
  \/ reauthenticate(t)
  \/ session_info(t)
  \/ is_authenticated(t)
  \/ \E c \in Callsigns : lookup_callsign(t, c)
  \/ \E n \in Entities : lookup_dxcc_entity(t, n)
  \/ \E c \in Callsigns : lookup_dxcc_by_callsign(t, c)
  \/ mar_snapshot(t)
  \/ \E o \in FreshLoginOutcomes : login_response(t, o)
  \/ mar_resnapshot(t)
  \/ \E o \in EchoRequestOutcomes(t) : mar_response(t, o)
  \/ lookup_callsign_clear(t)
  \/ return(t)
  \/ cancel(t)

NextFresh == \E t \in Tasks : StepFresh(t)

SpecFresh == Init /\ [][NextFresh]_vars

(* --------------------------- SessionState alone ------------------------ *)
\* Longest run of updates between two clears.
MaxApplied == 3

\* The Session blocks applied to a SessionState on its own.
SessionBlocks ==
  [key : Opt(Keys), count : Opt(Counts), sub_exp : Opt(SubExps), error : {None}]

clientVars == <<pc, op, input, param, attempt, ctx, result, trace, last, netUsed, held>>

state_update(si) ==
  /\ Len(applied) < MaxApplied
  /\ session' = update_from_session_info(session, si)
  /\ applied' = Append(applied, si)
  /\ UNCHANGED <<clientVars, arg, out>>

state_clear ==
  /\ session' = clear(session)
  /\ applied' = <<>>
  /\ UNCHANGED <<clientVars, arg, out>>

NextState ==
  \/ \E si \in SessionBlocks : state_update(si)
  \/ state_clear

SpecState == Init /\ [][NextState]_vars

(* ---------------------------- QrzXmlError ------------------------------ *)
Variants ==
  { "Network", "XmlParsing", "UrlParsing", "ApiError", "AuthenticationFailed",
    "SessionExpired", "CallsignNotFound", "DxccNotFound", "InvalidInput",
    "ConnectionRefused", "SubscriptionRequired", "RateLimitExceeded",
    "NoSessionKey", "InvalidApiVersion", "UnexpectedResponse" }

\* What a variant carries: a message, a callsign, an entity, a version, or
\* nothing the predicates could read.
Payloads(kind) ==
  CASE kind \in {"ApiError", "AuthenticationFailed", "InvalidInput", "UnexpectedResponse"} ->
         ErrorStrings
    [] kind = "CallsignNotFound" -> {to_uppercase(c) : c \in Callsigns \ {<<>>}}
    [] kind = "DxccNotFound" ->
         {to_string(n) : n \in Entities} \cup {to_uppercase(c) : c \in Callsigns \ {<<>>}}
    [] kind = "InvalidApiVersion" -> {<<"0">>, <<"9">>}
    [] OTHER -> {<<>>}

QrzXmlErrors == UNION { {Err(k, d) : d \in Payloads(k)} : k \in Variants }

should_reauthenticate(e) == e.kind \in {"SessionExpired", "NoSessionKey"}

\* Faulty variant: a missing session key counts as retryable too.
is_retryable_no_key(e) ==
  e.kind \in {"Network", "SessionExpired", "RateLimitExceeded", "NoSessionKey"}

is_retryable(e) == e.kind \in {"Network", "SessionExpired", "RateLimitExceeded"}

is_permission_error(e) == e.kind \in {"SubscriptionRequired", "ConnectionRefused"}

NoVerdicts ==
  [should_reauthenticate |-> None, is_retryable |-> None, is_permission_error |-> None]

InitError ==
  /\ ClientInit
  /\ applied = <<>>
  /\ arg \in QrzXmlErrors
  /\ out = NoVerdicts

ask_should_reauthenticate ==
  /\ out.should_reauthenticate = None
  /\ out' = [out EXCEPT !.should_reauthenticate = Some(should_reauthenticate(arg))]
  /\ UNCHANGED <<session, clientVars, applied, arg>>

ask_is_retryable ==
  /\ out.is_retryable = None
  /\ out' = [out EXCEPT !.is_retryable = Some(is_retryable(arg))]
  /\ UNCHANGED <<session, clientVars, applied, arg>>

ask_is_permission_error ==
  /\ out.is_permission_error = None
  /\ out' = [out EXCEPT !.is_permission_error = Some(is_permission_error(arg))]
  /\ UNCHANGED <<session, clientVars, applied, arg>>

NextError ==
  \/ ask_should_reauthenticate
  \/ ask_is_retryable
  \/ ask_is_permission_error

SpecError == InitError /\ [][NextError]_vars

(* ----------------------- DxccInfo::timezone_hours ---------------------- *)
\* Longest timezone string.
MaxTzLen == 4

TzChars == {"+", "-", "0", "4", "5"}
TzStrings == UNION { [1..n -> TzChars] : n \in 0..MaxTzLen }

is_digit(c) == \E i \in 1..Len(Digits) : Digits[i] = c
digit_value(c) == (CHOOSE i \in 1..Len(Digits) : Digits[i] = c) - 1

RECURSIVE digits_value(_)
digits_value(s) ==
  IF Len(s) = 0 THEN 0
  ELSE digits_value(SubSeq(s, 1, Len(s) - 1)) * 10 + digit_value(s[Len(s)])

\* An optional sign followed by at least one digit, and nothing else.
signed_digits(s) ==
  LET body == IF Len(s) > 0 /\ s[1] \in {"+", "-"} THEN Tail(s) ELSE s IN
  Len(body) > 0 /\ \A i \in 1..Len(body) : is_digit(body[i])

signed_value(s) ==
  IF s[1] = "-" THEN 0 - digits_value(Tail(s))
  ELSE IF s[1] = "+" THEN digits_value(Tail(s))
  ELSE digits_value(s)

\* str::parse::<i32>: Err (None) on anything but a signed decimal in range.
parse_i32(s) ==
  IF signed_digits(s)
     /\ signed_value(s) >= (0 - 2147483647) - 1
     /\ signed_value(s) <= 2147483647
  THEN Some(signed_value(s))
  ELSE None

\* str::parse::<f32> on the strings of the model (signs and digits): the
\* number, here counted in sixtieths so that minutes stay exact.
parse_f32(s) == IF signed_digits(s) THEN Some(signed_value(s) * 60) ELSE None

RECURSIVE trim_start_matches(_, _)
trim_start_matches(s, c) ==
  IF Len(s) > 0 /\ s[1] = c THEN trim_start_matches(Tail(s), c) ELSE s

\* The offset in minutes (sixtieths of the f32 number of hours).
timezone_hours(timezone) ==
  IF ~is_some(timezone) THEN None
  ELSE LET tz == trim_start_matches(unwrap(timezone), "+")
           hours == parse_i32(SubSeq(tz, 1, Len(tz) - 2))
           minutes == parse_i32(SubSeq(tz, Len(tz) - 1, Len(tz)))
       IN IF Len(tz) >= 3 /\ is_some(hours) /\ is_some(minutes)
          THEN Some(unwrap(hours) * 60 + unwrap(minutes))
          ELSE parse_f32(tz)

InitTimezone ==
  /\ ClientInit
  /\ applied = <<>>
  /\ arg \in Opt(TzStrings)
  /\ out = NoOut

ask_timezone_hours ==
  /\ out = NoOut
  /\ out' = Some(timezone_hours(arg))
  /\ UNCHANGED <<session, clientVars, applied, arg>>

NextTimezone == ask_timezone_hours

SpecTimezone == InitTimezone /\ [][NextTimezone]_vars

(* ------------------------- reading the traces -------------------------- *)
Kinds(t) == [i \in 1..Len(trace[t]) |-> trace[t][i].ev]

IsPrefix(a, b) == Len(a) <= Len(b) /\ \A i \in 1..Len(a) : a[i] = b[i]

NumEv(t, e) == Cardinality({i \in 1..Len(trace[t]) : trace[t][i].ev = e})

\* The places in the trace of the answers to the call's authenticated
\* requests, and to its logins.
RequestAnswers(t) ==
  {i \in 1..Len(trace[t]) : trace[t][i].ev = "answer" /\ trace[t][i].of = "request"}
LoginAnswers(t) ==
  {i \in 1..Len(trace[t]) : trace[t][i].ev = "answer" /\ trace[t][i].of = "login"}

FirstRequestAnswer(t) ==
  CHOOSE i \in RequestAnswers(t) : \A j \in RequestAnswers(t) : i <= j

\* The first authenticated request of the call was answered SessionExpired.
FirstRequestExpired(t) ==
  /\ RequestAnswers(t) # {}
  /\ trace[t][FirstRequestAnswer(t)].res = "SessionExpired"

RetrySteps == <<"clear", "login", "answer", "request", "answer">>

(* ------------------------------- claims -------------------------------- *)
\* C1: when the first authenticated request of a lookup_callsign call fails
\* with SessionExpired, the call goes on with, in this order, a clear of the
\* session state (token, count and expiry absent), a login and the same
\* callsign request once more, and nothing else. If the re-login fails the
\* call ends there with the login's error; when the second request has been
\* answered the call is over, with the request's error if it failed.
C1_RetryOnceInOrder ==
  \A t \in Tasks :
    (op[t] = "lookup_callsign" /\ FirstRequestExpired(t)) =>
      LET tr == trace[t]
          i == FirstRequestAnswer(t)
          rest == SubSeq(Kinds(t), i + 1, Len(tr))
      IN /\ IsPrefix(rest, RetrySteps)
         /\ (Len(rest) = 0 <=> pc[t] = "clear_session")
         /\ Len(rest) # 1
         /\ (Len(rest) = 2 =>
               pc[t] = "login_io" /\ session = [key |-> None, count |-> None, sub_exp |-> None])
         /\ (Len(rest) >= 3 =>
               /\ tr[i + 3].of = "login"
               /\ (tr[i + 3].res # "Ok" =>
                     /\ Len(rest) = 3
                     /\ pc[t] = "done"
                     /\ ~result[t].ok
                     /\ result[t].kind = tr[i + 3].res))
         /\ (Len(rest) >= 4 =>
               /\ tr[i + 4].name = "callsign"
               /\ tr[i + 4].value = tr[i - 1].value
               /\ tr[i + 4].value = to_uppercase(input[t]))
         /\ (Len(rest) = 5 =>
               /\ tr[i + 5].of = "request"
               /\ pc[t] = "done"
               /\ (tr[i + 5].res # "Ok" =>
                     ~result[t].ok /\ result[t].kind = tr[i + 5].res))

\* A lookup_callsign call that retried and whose second request failed too.
C1_Witness ==
  \E t \in Tasks :
    /\ pc[t] = "done"
    /\ op[t] = "lookup_callsign"
    /\ Kinds(t) = <<"request", "answer", "clear", "login", "answer", "request", "answer">>
    /\ trace[t][2].res = "SessionExpired"
    /\ result[t].kind = "ApiError"

\* Every answer to the call's authenticated requests was "Session Timeout"
\* without a Key; every login of the call was accepted.
AllTimeouts(t) ==
  \A i \in RequestAnswers(t) :
    trace[t][i].error = Some(ErrSessionTimeout) /\ trace[t][i].key = None
AllLoginsOk(t) == \A i \in LoginAnswers(t) : trace[t][i].res = "Ok"

\* C2: a lookup_callsign call issues at most two authenticated requests and
\* is over once the second is answered. On a client authenticated beforehand
\* and against a provider that answers every authenticated request with
\* "Session Timeout" and no Key (and accepts the logins), the call returns
\* SessionExpired after exactly one login and exactly two requests.
C2_AtMostTwoRequests ==
  \A t \in Tasks :
    op[t] = "lookup_callsign" =>
      /\ NumEv(t, "request") <= 2
      /\ (Cardinality(RequestAnswers(t)) = 2 => pc[t] = "done")
      /\ ( ( /\ pc[t] = "done"
             /\ Len(trace[t]) > 0
             /\ trace[t][1].ev = "request"
             /\ AllTimeouts(t)
             /\ AllLoginsOk(t) ) =>
           /\ ~result[t].ok
           /\ result[t].kind = "SessionExpired"
           /\ NumEv(t, "login") = 1
           /\ NumEv(t, "request") = 2 )

\* The call of the scenario: authenticated beforehand, two timeouts.
C2_Witness ==
  \E t \in Tasks :
    /\ pc[t] = "done"
    /\ op[t] = "lookup_callsign"
    /\ Len(trace[t]) > 0
    /\ trace[t][1].ev = "request"
    /\ AllTimeouts(t)
    /\ AllLoginsOk(t)
    /\ NumEv(t, "request") = 2
    /\ result[t].kind = "SessionExpired"

\* The first attempt of a lookup is over at the first answer that is a
\* refused login or the answer to a request.
AttemptEnds(t) ==
  {i \in 1..Len(trace[t]) :
     /\ trace[t][i].ev = "answer"
     /\ (trace[t][i].of = "request" \/ trace[t][i].res # "Ok")}
FirstAttemptEnd(t) == CHOOSE i \in AttemptEnds(t) : \A j \in AttemptEnds(t) : i <= j

Lookups == {"lookup_callsign", "lookup_dxcc_entity", "lookup_dxcc_by_callsign"}
DxccLookups == {"lookup_dxcc_entity", "lookup_dxcc_by_callsign"}

\* C3 (as claimed): a DXCC lookup whose first authenticated request fails
\* with SessionExpired does not end there: it clears the session state,
\* logs in again and retries the request once.
C3_DxccRetriesOnExpiry ==
  \A t \in Tasks :
    (op[t] \in DxccLookups /\ pc[t] = "done" /\ FirstRequestExpired(t)) =>
      /\ NumEv(t, "clear") = 1
      /\ NumEv(t, "login") >= 1
      /\ Len(trace[t]) > FirstRequestAnswer(t)

\* C4 (as claimed): a lookup_callsign call whose first attempt fails with
\* NoSessionKey does not return it straight away: it logs in again.
C4_NoSessionKeyRecovered ==
  \A t \in Tasks :
    ( /\ op[t] = "lookup_callsign"
      /\ pc[t] = "done"
      /\ AttemptEnds(t) # {}
      /\ trace[t][FirstAttemptEnd(t)].res = "NoSessionKey" ) =>
      /\ Len(trace[t]) > FirstAttemptEnd(t)
      /\ NumEv(t, "login") >= 2

\* C5: when the first attempt of a lookup fails with an error other than
\* SessionExpired and NoSessionKey, the call is over at once: it does
\* nothing more and returns that error (with its message, if it has one).
C5_OtherErrorsPropagate ==
  \A t \in Tasks :
    (op[t] \in Lookups /\ AttemptEnds(t) # {}) =>
      LET e == trace[t][FirstAttemptEnd(t)] IN
      e.res \notin {"Ok", "SessionExpired", "NoSessionKey"} =>
        /\ e.res \in {"Network", "XmlParsing", "ApiError", "AuthenticationFailed",
                      "ConnectionRefused"}
        /\ pc[t] = "done"
        /\ Len(trace[t]) = FirstAttemptEnd(t)
        /\ ~result[t].ok
        /\ result[t].kind = e.res
        /\ (e.res \in {"ApiError", "AuthenticationFailed"} =>
              result[t].data = unwrap(e.error))

\* A lookup_callsign call whose only request met a transport failure.
C5_Witness ==
  \E t \in Tasks :
    /\ pc[t] = "done"
    /\ op[t] = "lookup_callsign"
    /\ Kinds(t) = <<"request", "answer">>
    /\ result[t].kind = "Network"

\* The call is over and the last thing it did was to receive the decoded
\* response to an authenticated request, respectively to a login.
EndedOnResponse(t, of) ==
  /\ pc[t] = "done"
  /\ Len(trace[t]) > 0
  /\ trace[t][Len(trace[t])].ev = "answer"
  /\ trace[t][Len(trace[t])].of = of
  /\ last[t].tag = "Decoded"

SessionPhrase(e) == contains(e, PhraseSessionTimeout) \/ contains(e, PhraseSession)

\* C6 (as claimed): a lookup_callsign(c) call whose response carries an error
\* containing "not found" and no callsign record fails with CallsignNotFound
\* carrying the uppercased c, whatever the other Session fields are.
C6_NotFoundAlways ==
  \A t \in Tasks :
    ( /\ op[t] = "lookup_callsign"
      /\ EndedOnResponse(t, "request")
      /\ is_some(last[t].resp.session.error)
      /\ contains(unwrap(last[t].resp.session.error), PhraseNotFound)
      /\ ~is_some(last[t].resp.callsign) ) =>
      /\ result[t].kind = "CallsignNotFound"
      /\ result[t].data = to_uppercase(input[t])

\* C6 (amended): a lookup_callsign(c) call whose response carries a Key, no
\* callsign record and an error that contains "not found" but neither
\* "Session Timeout" nor "session" fails with CallsignNotFound carrying the
\* uppercased c, whatever the count, the expiry and the DXCC record are.
C6_NotFoundWithKey ==
  \A t \in Tasks :
    ( /\ op[t] = "lookup_callsign"
      /\ EndedOnResponse(t, "request")
      /\ is_some(last[t].resp.session.error)
      /\ contains(unwrap(last[t].resp.session.error), PhraseNotFound)
      /\ ~SessionPhrase(unwrap(last[t].resp.session.error))
      /\ is_some(last[t].resp.session.key)
      /\ ~is_some(last[t].resp.callsign) ) =>
      /\ ~result[t].ok
      /\ result[t].kind = "CallsignNotFound"
      /\ result[t].data = to_uppercase(input[t])

\* lookup_callsign("aa7") has failed with CallsignNotFound{"AA7"}.
C6_Witness ==
  \E t \in Tasks :
    /\ op[t] = "lookup_callsign"
    /\ EndedOnResponse(t, "request")
    /\ input[t] = <<"a", "a", "7">>
    /\ last[t].resp.session.error = Some(ErrCallsignNotFound)
    /\ result[t].kind = "CallsignNotFound"
    /\ result[t].data = <<"A", "A", "7">>

\* C7: an authenticated request whose response carries an error string that
\* contains none of "Session Timeout", "session" and "not found" fails with
\* ApiError carrying that string, with or without a Key in the response, and
\* that is what the lookup returns; so "Not found: AA7" on a callsign lookup
\* gives ApiError, not CallsignNotFound.
C7_OtherErrorIsApiError ==
  \A t \in Tasks :
    op[t] \in Lookups =>
      \A i \in RequestAnswers(t) :
        LET a == trace[t][i] IN
        ( /\ a.res \notin {"Network", "XmlParsing"}
          /\ is_some(a.error)
          /\ ~SessionPhrase(unwrap(a.error))
          /\ ~contains(unwrap(a.error), PhraseNotFound) ) =>
          /\ a.res = "ApiError"
          /\ i = Len(trace[t])
          /\ pc[t] = "done"
          /\ ~result[t].ok
          /\ result[t].kind = "ApiError"
          /\ result[t].data = unwrap(a.error)

\* A callsign lookup answered "Not found: AA7", without a Key, has failed
\* with ApiError.
C7_Witness ==
  \E t \in Tasks :
    /\ op[t] = "lookup_callsign"
    /\ EndedOnResponse(t, "request")
    /\ last[t].resp.session.error = Some(ErrNotFoundCapital)
    /\ last[t].resp.session.key = None
    /\ result[t].kind = "ApiError"
    /\ result[t].data = ErrNotFoundCapital

\* C8 (as claimed): every decoded response to an authenticated request that
\* has no Key makes the attempt fail with SessionExpired.
C8_NoKeyAlwaysExpired ==
  \A t \in Tasks :
    \A i \in RequestAnswers(t) :
      LET a == trace[t][i] IN
      (a.res \notin {"Network", "XmlParsing"} /\ a.key = None) =>
        a.res = "SessionExpired"

\* C8 (amended): a decoded response to an authenticated request that has no
\* Key makes the attempt fail: with SessionExpired when it carries no error
\* string or one containing "Session Timeout", "session" or "not found", and
\* with ApiError for every other error string.
C8_NoKeyFails ==
  \A t \in Tasks :
    \A i \in RequestAnswers(t) :
      LET a == trace[t][i] IN
      (a.res \notin {"Network", "XmlParsing"} /\ a.key = None) =>
        IF ~is_some(a.error)
           \/ SessionPhrase(unwrap(a.error))
           \/ contains(unwrap(a.error), PhraseNotFound)
        THEN a.res = "SessionExpired"
        ELSE a.res = "ApiError"

\* A response with neither a Key nor an error string was answered
\* SessionExpired.
C8_Witness ==
  \E t \in Tasks :
    \E i \in RequestAnswers(t) :
      /\ trace[t][i].key = None
      /\ trace[t][i].error = None
      /\ trace[t][i].res = "SessionExpired"

\* C9: as long as the client has sent nothing, is_authenticated() is false
\* and session_info() is (None, None); when authenticate() has succeeded on
\* a login response carrying a Key, Count = n and SubExp = x,
\* is_authenticated() is true and session_info() is (Some(n), Some(x)).
C9_SessionInfoTracking ==
  /\ ~netUsed =>
       /\ ~has_valid_session(session)
       /\ session_info_of(session) = Some(<<None, None>>)
  /\ \A t \in Tasks :
       /\ (pc[t] = "done" /\ op[t] = "is_authenticated") =>
            (result[t].ok /\ result[t].data = is_some(session.key)
               /\ (~netUsed => result[t].data = FALSE))
       /\ (pc[t] = "done" /\ op[t] = "session_info") =>
            (result[t].ok /\ result[t].data = Some(<<session.count, session.sub_exp>>)
               /\ (~netUsed => result[t].data = Some(<<None, None>>)))
       /\ ( /\ op[t] = "authenticate"
            /\ EndedOnResponse(t, "login")
            /\ result[t].ok
            /\ is_some(last[t].resp.session.key)
            /\ is_some(last[t].resp.session.count)
            /\ is_some(last[t].resp.session.sub_exp) ) =>
            /\ session.key = last[t].resp.session.key
            /\ has_valid_session(session)
            /\ session_info_of(session) =
                 Some(<<last[t].resp.session.count, last[t].resp.session.sub_exp>>)

\* authenticate() has succeeded with Count = 42 and a SubExp.
C9_Witness ==
  \E t \in Tasks :
    /\ op[t] = "authenticate"
    /\ EndedOnResponse(t, "login")
    /\ result[t].ok
    /\ last[t].resp.session.count = Some(42)
    /\ last[t].resp.session.sub_exp = Some("Wed Jan 1 2025")
    /\ session_info_of(session) = Some(<<Some(42), Some("Wed Jan 1 2025")>>)

\* C10: a login whose response carries an error string fails with
\* ConnectionRefused if the string contains "Connection refused", otherwise
\* with AuthenticationFailed carrying the string if it contains "password"
\* or "username", otherwise with ApiError carrying the string; so
\* authenticate() answered "Username/password incorrect" fails with
\* AuthenticationFailed and a reason containing that text.
C10_LoginErrorPriority ==
  \A t \in Tasks :
    (EndedOnResponse(t, "login") /\ is_some(last[t].resp.session.error)) =>
      LET e == unwrap(last[t].resp.session.error) IN
      /\ ~result[t].ok
      /\ IF contains(e, PhraseConnectionRefused)
         THEN result[t].kind = "ConnectionRefused"
         ELSE IF contains(e, PhrasePassword) \/ contains(e, PhraseUsername)
         THEN result[t].kind = "AuthenticationFailed" /\ result[t].data = e
         ELSE result[t].kind = "ApiError" /\ result[t].data = e
      /\ (op[t] = "authenticate" /\ e = ErrCredentials) =>
           /\ result[t].kind = "AuthenticationFailed"
           /\ contains(result[t].data, ErrCredentials)

\* authenticate() answered "Username/password incorrect" has failed.
C10_Witness ==
  \E t \in Tasks :
    /\ op[t] = "authenticate"
    /\ EndedOnResponse(t, "login")
    /\ last[t].resp.session.error = Some(ErrCredentials)
    /\ result[t].kind = "AuthenticationFailed"

\* The login answers of the call whose response carried no error string and
\* no usable Key: none, or an empty one.
NoTokenLogins(t) ==
  {i \in LoginAnswers(t) :
     /\ trace[t][i].res \notin {"Network", "XmlParsing"}
     /\ trace[t][i].error = None
     /\ trace[t][i].key \in {None, Some(EmptyKey)}}

\* C11 (as claimed): a login whose response carries no error string and no
\* Key, or an empty Key, fails with NoSessionKey, and a client that was
\* unauthenticated when the login was sent is unauthenticated afterwards.
C11_LoginNeedsToken ==
  \A t \in Tasks :
    /\ \A i \in NoTokenLogins(t) : trace[t][i].res = "NoSessionKey"
    /\ ( /\ EndedOnResponse(t, "login")
         /\ op[t] # "authenticate"
         /\ Len(trace[t]) \in NoTokenLogins(t) ) =>
         ~has_valid_session(session)

\* C12: lookup_callsign("") is over at once with InvalidInput: the call sends
\* neither a login nor a request and leaves the session state as it was,
\* whether the client was authenticated or not.
C12_EmptyCallsignRejected ==
  [][ \A t \in Tasks :
        ( /\ pc[t] = "idle"
          /\ pc'[t] # "idle"
          /\ op'[t] = "lookup_callsign"
          /\ input'[t] = <<>> ) =>
          /\ pc'[t] = "done"
          /\ ~result'[t].ok
          /\ result'[t].kind = "InvalidInput"
          /\ trace'[t] = <<>>
          /\ netUsed' = netUsed
          /\ session' = session ]_vars

\* lookup_callsign("") has failed on an authenticated client.
C12_Witness ==
  \E t \in Tasks :
    /\ pc[t] = "done"
    /\ op[t] = "lookup_callsign"
    /\ input[t] = <<>>
    /\ result[t].kind = "InvalidInput"
    /\ trace[t] = <<>>
    /\ session.key = Some("K1")
    /\ session.count = Some(42)

\* The call is a lookup that did some network I/O and has failed.
LookupFailed(t) ==
  /\ pc[t] = "done"
  /\ op[t] \in Lookups
  /\ ~result[t].ok
  /\ Len(trace[t]) > 0

\* The last thing the call did was to receive a refused or failed login.
EndedOnFailedLogin(t) ==
  /\ Len(trace[t]) > 0
  /\ trace[t][Len(trace[t])].ev = "answer"
  /\ trace[t][Len(trace[t])].of = "login"
  /\ trace[t][Len(trace[t])].res # "Ok"

LoggedInFirst(t) ==
  /\ op[t] \in Lookups
  /\ Len(trace[t]) >= 2
  /\ trace[t][1].ev = "login"
  /\ trace[t][2].res = "Ok"

\* C14 (as claimed): when two lookups under way on one client have both found
\* the token absent and both logged in successfully, each of them goes on to
\* send its request once it has read the token again: neither ends with
\* NoSessionKey.
C14_BothLoginsBothRequests ==
  \A a, b \in Tasks :
    (a # b /\ LoggedInFirst(a) /\ LoggedInFirst(b)) =>
      \A t \in {a, b} :
        pc[t] # "mar_resnapshot" =>
          /\ Len(trace[t]) >= 3
          /\ trace[t][3].ev = "request"
          /\ result[t].kind # "NoSessionKey"

\* C15 (as claimed): when the decoded response that ended a lookup carries an
\* error string in its Session block, be it empty, the lookup returns an
\* error: it does not return Ok.
C15_ErrorNeverSwallowed ==
  \A t \in Tasks :
    ( /\ op[t] \in Lookups
      /\ EndedOnResponse(t, "request")
      /\ is_some(last[t].resp.session.error) ) =>
      ~result[t].ok

\* The DXCC lookup ended on a response that make_authenticated_request
\* accepted and that carries no DXCC record.
DxccRecordAbsent(t) ==
  /\ op[t] \in DxccLookups
  /\ EndedOnResponse(t, "request")
  /\ trace[t][Len(trace[t])].res = "Ok"
  /\ ~is_some(last[t].resp.dxcc)

\* What the DXCC lookup was asked for, as it is sent and reported.
Requested(t) ==
  IF op[t] = "lookup_dxcc_entity" THEN to_string(input[t]) ELSE to_uppercase(input[t])

\* C16 (as claimed): a DXCC lookup whose accepted response carries no DXCC
\* record fails with DxccNotFound carrying the requested identifier.
C16_AbsentAlwaysNotFound ==
  \A t \in Tasks :
    DxccRecordAbsent(t) =>
      /\ result[t].kind = "DxccNotFound"
      /\ result[t].data = Requested(t)

\* C16 (amended): a DXCC lookup whose accepted response carries no DXCC record
\* fails: with DxccNotFound carrying the requested identifier (n in decimal,
\* respectively the uppercased c) when the response carries an error string,
\* and with UnexpectedResponse when it carries none.
C16_AbsentRecord ==
  \A t \in Tasks :
    DxccRecordAbsent(t) =>
      /\ ~result[t].ok
      /\ IF is_some(last[t].resp.session.error)
         THEN /\ result[t].kind = "DxccNotFound"
              /\ result[t].data = Requested(t)
              /\ result[t].data \in {<<"7">>, <<"2", "9", "1">>, <<"A", "A", "7">>}
         ELSE result[t].kind = "UnexpectedResponse"

\* lookup_dxcc_by_callsign("aa7") has failed with DxccNotFound{"AA7"}, and
\* lookup_dxcc_entity(291) with DxccNotFound{"291"}.
C16_Witness ==
  \E t \in Tasks :
    /\ DxccRecordAbsent(t)
    /\ result[t].kind = "DxccNotFound"
    /\ \/ /\ op[t] = "lookup_dxcc_by_callsign"
          /\ input[t] = <<"a", "a", "7">>
          /\ result[t].data = <<"A", "A", "7">>
       \/ /\ op[t] = "lookup_dxcc_entity"
          /\ input[t] = 291
          /\ result[t].data = <<"2", "9", "1">>

\* The variants the claim names for each predicate.
ReauthenticateVariants == {"SessionExpired", "NoSessionKey"}
RetryableVariants == {"Network", "SessionExpired", "RateLimitExceeded"}
PermissionVariants == {"SubscriptionRequired", "ConnectionRefused"}

\* C17: each of the three predicates depends on the variant of the error
\* alone, whatever the error carries: should_reauthenticate is true exactly
\* for SessionExpired and NoSessionKey, is_retryable exactly for Network,
\* SessionExpired and RateLimitExceeded, is_permission_error exactly for
\* SubscriptionRequired and ConnectionRefused, and each is false for every
\* other variant.
C17_ErrorPredicates ==
  /\ arg.kind \in Variants
  /\ is_some(out.should_reauthenticate) =>
       unwrap(out.should_reauthenticate) = (arg.kind \in ReauthenticateVariants)
  /\ is_some(out.is_retryable) =>
       unwrap(out.is_retryable) = (arg.kind \in RetryableVariants)
  /\ is_some(out.is_permission_error) =>
       unwrap(out.is_permission_error) = (arg.kind \in PermissionVariants)
  /\ \A e \in QrzXmlErrors :
       e.kind = arg.kind =>
         /\ should_reauthenticate(e) = should_reauthenticate(arg)
         /\ is_retryable(e) = is_retryable(arg)
         /\ is_permission_error(e) = is_permission_error(arg)

\* The three predicates have been asked of NoSessionKey: re-authenticate,
\* not retryable, not a permission error.
C17_Witness ==
  /\ arg = Err("NoSessionKey", <<>>)
  /\ out.should_reauthenticate = Some(TRUE)
  /\ out.is_retryable = Some(FALSE)
  /\ out.is_permission_error = Some(FALSE)

\* The timezone strings the claim speaks of: an optional sign, then digits.
SignOf(s) == IF s[1] = "-" THEN 0 - 1 ELSE 1
DigitsOf(s) == IF s[1] \in {"+", "-"} THEN Tail(s) ELSE s

\* The offset the claim gives such a string, in minutes: H hours and MM
\* minutes when there are three digits or more, the number of hours
\* otherwise, with the sign applied to the whole.
ClaimedOffset(s) ==
  LET d == DigitsOf(s) IN
  IF Len(d) >= 3
  THEN SignOf(s) * (digits_value(SubSeq(d, 1, Len(d) - 2)) * 60
                      + digits_value(SubSeq(d, Len(d) - 1, Len(d))))
  ELSE SignOf(s) * digits_value(d) * 60

\* C18 (as claimed): timezone_hours reads an optional sign followed by digits
\* as a signed offset: H hours and MM minutes when the digits have the form
\* H..MM, the number itself otherwise, the sign applying to the whole offset;
\* so "545" is 345 minutes, "-5" is -300 minutes and "-HMM" is the negation
\* of "HMM".
C18_SignedOffset ==
  (out # NoOut /\ is_some(arg) /\ signed_digits(unwrap(arg))) =>
    unwrap(out) = Some(ClaimedOffset(unwrap(arg)))

\* The updates applied since the last clear that carried field f, and the
\* value of the latest of them (None if there is none).
Carrying(f) == {i \in 1..Len(applied) : is_some(applied[i][f])}
LatestCarried(f) ==
  IF Carrying(f) = {} THEN None
  ELSE applied[CHOOSE i \in Carrying(f) : \A j \in Carrying(f) : j <= i][f]

SessionFields == {"key", "count", "sub_exp"}

\* C19: update_from_session_info replaces a field of the session state
\* (token, count, expiry) exactly when the Session block carries it: a field
\* the block lacks keeps its value and a token the block carries replaces the
\* stored one. So, after any run of updates since the last clear, each field
\* holds the value of the latest block that carried it, and is absent if no
\* block did.
C19_FieldwiseUpdate ==
  [][ /\ Len(applied') = Len(applied) + 1 =>
           LET si == applied'[Len(applied')] IN
           \A f \in SessionFields :
             session'[f] = IF is_some(si[f]) THEN si[f] ELSE session[f]
      /\ \A f \in SessionFields : session'[f] = LatestCarried(f)' ]_vars

\* Two updates: the second replaced the token and, carrying no count, left
\* the count of the first.
C19_Witness ==
  /\ Len(applied) = 2
  /\ applied[1].key = Some("K1")
  /\ applied[1].count = Some(42)
  /\ applied[2].key = Some("K2")
  /\ applied[2].count = None
  /\ session.key = Some("K2")
  /\ session.count = Some(42)

\* The step is the arrival of a login response that was accepted and whose
\* key is the one now stored.
LoginSupplied ==
  \E t \in Tasks :
    /\ pc[t] = "login_io"
    /\ Len(trace'[t]) = Len(trace[t]) + 1
    /\ trace'[t][Len(trace'[t])].of = "login"
    /\ trace'[t][Len(trace'[t])].res = "Ok"
    /\ trace'[t][Len(trace'[t])].key = session'.key

\* C20 (as claimed): the token of a client is absent until a login response
\* supplies a key (from absent it becomes present only on such a response),
\* and the stored token is never the empty string.
C20_TokenNeverEmpty ==
  [][ /\ (~has_valid_session(session) /\ has_valid_session(session')) => LoginSupplied
      /\ session'.key # Some(EmptyKey) ]_vars

\* The step in which task t receives the answer to its login (of = "login")
\* or to its authenticated request (of = "request").
Answered(t, of) ==
  /\ Len(trace'[t]) = Len(trace[t]) + 1
  /\ trace'[t][Len(trace'[t])].ev = "answer"
  /\ trace'[t][Len(trace'[t])].of = of

\* The session state st after taking over the Session block si: each field
\* the block carries, and the old value of each field it lacks.
Overlaid(st, si) ==
  [f \in SessionFields |-> IF is_some(si[f]) THEN si[f] ELSE st[f]]

\* C21: make_authenticated_request applies the Session block of every decoded
\* response to the session state before it classifies the response: whatever
\* the call then returns (SessionExpired and ApiError included), the token,
\* count and expiry the response carried are stored, while a transport or
\* XML-parsing failure leaves the session state unchanged.
C21_UpdateBeforeClassification ==
  [][ \A t \in Tasks :
        Answered(t, "request") =>
          IF last'[t].tag = "Decoded"
          THEN \A f \in SessionFields :
                 session'[f] = Overlaid(session, last'[t].resp.session)[f]
          ELSE session' = session ]_vars

\* A request sent with one token was answered with an error that is not about
\* the session and with another token: the call failed with ApiError and the
\* token, count and expiry of the response are stored.
C21_Witness ==
  \E t \in Tasks :
    /\ EndedOnResponse(t, "request")
    /\ result[t].kind = "ApiError"
    /\ trace[t][Len(trace[t]) - 1].ev = "request"
    /\ is_some(last[t].resp.session.key)
    /\ unwrap(last[t].resp.session.key) # trace[t][Len(trace[t]) - 1].s
    /\ is_some(last[t].resp.session.count)
    /\ is_some(last[t].resp.session.sub_exp)
    /\ session.key = last[t].resp.session.key
    /\ session.count = last[t].resp.session.count
    /\ session.sub_exp = last[t].resp.session.sub_exp

\* The places where a network call of the task is in flight.
InFlight == {"login_io", "req_io"}

\* C22: no task holds the read or the write guard of the session lock while
\* one of its network calls (the login request or the authenticated request)
\* is in flight: every guard is dropped, after the session fields have been
\* read or assigned, before the task's next network call.
C22_NoLockAcrossNetwork ==
  \A t \in Tasks : pc[t] \in InFlight => held[t] = "none"

\* One task has written the key of its login and sent its request, the other
\* has cleared the session and sent its re-login: both network calls are in
\* flight and neither task holds a guard.
C22_Witness ==
  \E t \in Tasks : \E u \in Tasks \ {t} :
    /\ pc[t] = "req_io"
    /\ NumEv(t, "login") = 1
    /\ pc[u] = "login_io"
    /\ NumEv(u, "clear") = 1
    /\ held[t] = "none"
    /\ held[u] = "none"

\* The step in which the call of task t is abandoned.
Cancelled(t) == pc[t] \in Suspended /\ pc'[t] = "idle"

\* C23: abandoning a call where it is suspended leaves the session state as
\* the completed updates and clears have made it. Every step leaves the
\* session state as it was, or cleared, or updated with the whole Session
\* block of the response just received; the step that abandons a call leaves
\* it as it was, drops the guards of the call and leaves the task as a
\* returned call leaves it, so the next call starts from the stored session
\* state alone.
C23_CancelKeepsWholeUpdates ==
  [][ /\ \/ session' = session
         \/ session' = clear(session)
         \/ \E t \in Tasks :
              /\ Answered(t, "login") \/ Answered(t, "request")
              /\ last'[t].tag = "Decoded"
              /\ session' = update_from_session_info(session, last'[t].resp.session)
      /\ \A t \in Tasks :
           Cancelled(t) =>
             /\ session' = session
             /\ held'[t] = "none"
             /\ op'[t] = "none" /\ input'[t] = <<>> /\ param'[t] = <<>>
             /\ attempt'[t] = 1 /\ ctx'[t] = "none"
             /\ result'[t] = NoResult /\ trace'[t] = <<>> ]_vars

\* A call has been abandoned and the session state holds the token, count
\* and expiry that its completed updates wrote.
C23_Witness ==
  \E t \in Tasks :
    /\ pc[t] = "idle"
    /\ last[t] = Abandoned
    /\ is_some(session.key)
    /\ is_some(session.count)
    /\ is_some(session.sub_exp)

\* The step in which task t clears the session state: at the start of
\* reauthenticate, or in lookup_callsign after its first request was answered
\* SessionExpired.
Clears(t) ==
  /\ session' = clear(session)
  /\ \/ pc[t] = "idle" /\ op'[t] = "reauthenticate"
     \/ /\ pc[t] = "clear_session"
        /\ op[t] = "lookup_callsign"
        /\ trace[t][Len(trace[t])].ev = "answer"
        /\ trace[t][Len(trace[t])].of = "request"
        /\ trace[t][Len(trace[t])].res = "SessionExpired"

\* C24: once present, the stored token becomes absent again only through
\* clear(), called by reauthenticate() and by lookup_callsign after
\* SessionExpired: the step that receives a response or the answer to a
\* login, however it is classified, never removes the token.
C24_TokenRemovedOnlyByClear ==
  [][ /\ (has_valid_session(session) /\ ~has_valid_session(session')) =>
           \E t \in Tasks : Clears(t)
      /\ \A t \in Tasks :
           (has_valid_session(session)
              /\ (Answered(t, "login") \/ Answered(t, "request"))) =>
             has_valid_session(session') ]_vars

\* lookup_callsign sent the stored token, was answered SessionExpired and has
\* cleared the session state: the token is absent.
C24_Witness ==
  \E t \in Tasks :
    /\ op[t] = "lookup_callsign"
    /\ pc[t] = "login_io"
    /\ Kinds(t) = <<"request", "answer", "clear", "login">>
    /\ trace[t][2].res = "SessionExpired"
    /\ ~has_valid_session(session)

\* C25: a login that fails for any reason (transport or parsing failure, an
\* error string in the response, or a response without a key) leaves the
\* session state as it was before the login: the step that receives the
\* answer to a failed login changes none of token, count and expiry.
C25_FailedLoginKeepsSession ==
  [][ \A t \in Tasks :
        (Answered(t, "login") /\ trace'[t][Len(trace'[t])].res # "Ok") =>
          session' = session ]_vars

\* authenticate() on a client that holds a token was answered with an error
\* string and another key: the login failed and the old token is still stored.
C25_Witness ==
  \E t \in Tasks :
    /\ op[t] = "authenticate"
    /\ pc[t] = "done"
    /\ Kinds(t) = <<"login", "answer">>
    /\ trace[t][2].res = "ApiError"
    /\ is_some(trace[t][2].key)
    /\ has_valid_session(session)
    /\ trace[t][2].key # session.key

\* A DXCC lookup has failed with SessionExpired, and the token its request
\* carried.
DxccExpired(t) ==
  /\ pc[t] = "done"
  /\ op[t] \in DxccLookups
  /\ result[t].kind = "SessionExpired"
SentToken(t) == trace[t][Len(trace[t]) - 1].s

\* C26 (as claimed): after a DXCC lookup has failed with SessionExpired, the
\* stored token is the token that the lookup sent.
C26_SentTokenStored ==
  \A t \in Tasks : DxccExpired(t) => session.key = Some(SentToken(t))

\* C26 (amended): after a DXCC lookup has failed with SessionExpired a token
\* is still stored: the Key of the refused response when it carried one, and
\* otherwise the token that was sent. Returning to the caller keeps it, a DXCC
\* lookup that starts keeps it, and the first step of a DXCC lookup on a
\* client with a token is a request carrying the stored token, without a
\* login.
C26_StoredTokenSentAgain ==
  [][ \A t \in Tasks :
        /\ DxccExpired(t) =>
             /\ EndedOnResponse(t, "request")
             /\ trace[t][Len(trace[t]) - 1].ev = "request"
             /\ session.key = IF is_some(last[t].resp.session.key)
                              THEN last[t].resp.session.key
                              ELSE Some(SentToken(t))
        /\ (DxccExpired(t) /\ pc'[t] = "idle") => session' = session
        /\ (pc[t] = "idle" /\ op'[t] \in DxccLookups) => session' = session
        /\ ( /\ op[t] \in DxccLookups
             /\ pc[t] = "mar_snapshot"
             /\ trace[t] = <<>>
             /\ has_valid_session(session)
             /\ pc'[t] \notin {pc[t], "idle"} ) =>
             /\ Kinds(t)' = <<"request">>
             /\ trace'[t][1].s = unwrap(session.key)
             /\ session' = session ]_vars

\* A DXCC lookup sent K1 and was answered "Session Timeout" with the key K2:
\* it has failed with SessionExpired and the stored token is K2.
C26_Witness ==
  \E t \in Tasks :
    /\ DxccExpired(t)
    /\ Kinds(t) = <<"request", "answer">>
    /\ SentToken(t) = "K1"
    /\ last[t].resp.session.key = Some("K2")
    /\ session.key = Some("K2")

\* C27 (as claimed): in every interleaving, a lookup whose own login inside
\* make_authenticated_request was granted a key goes on to send its request,
\* and a call returns NoSessionKey only when its last login response carried
\* neither an error nor a key.
C27_LoginThenRequest ==
  \A t \in Tasks :
    /\ (pc[t] = "done" /\ op[t] \in Lookups) =>
         \A i \in LoginAnswers(t) :
           (trace[t][i].res = "Ok" /\ trace[t][i - 1].ev = "login"
              /\ (i = 2 \/ trace[t][i - 2].ev # "clear")) =>
             (i < Len(trace[t]) /\ trace[t][i + 1].ev = "request")
    /\ (pc[t] = "done" /\ result[t].kind = "NoSessionKey") =>
         /\ EndedOnFailedLogin(t)
         /\ trace[t][Len(trace[t])].res = "NoSessionKey"

\* C28 (as claimed): in every interleaving of concurrent calls on one client,
\* a single lookup_callsign call performs at most two logins.
C28_AtMostTwoLogins ==
  \A t \in Tasks : op[t] = "lookup_callsign" => NumEv(t, "login") <= 2

\* The places of the requests in the trace of a call, and of its clear.
Requests(t) == {i \in 1..Len(trace[t]) : trace[t][i].ev = "request"}
ClearAt(t) == CHOOSE i \in 1..Len(trace[t]) : trace[t][i].ev = "clear"
FirstRequest(t) == CHOOSE i \in Requests(t) : \A j \in Requests(t) : i <= j

\* C29 (as claimed): provided the server issues a fresh token at every login,
\* the request that lookup_callsign retries after its re-login never carries
\* the token that the failed first attempt sent, whatever responses to other
\* calls' requests are applied to the session state in between.
C29_RetrySendsFreshToken ==
  \A t \in Tasks :
    (op[t] = "lookup_callsign" /\ NumEv(t, "clear") = 1) =>
      \A i \in Requests(t) :
        i > ClearAt(t) => trace[t][i].s # trace[t][FirstRequest(t)].s

\* C30: reauthenticate() clears the session state before it logs in, so no
\* field of the old session survives it: when its login fails, token, count
\* and expiry are all absent; when it succeeds, each of them is what the new
\* login response carried, and absent if the response lacked it. authenticate()
\* does not clear: when its login succeeds, a field the response lacks keeps
\* its old value.
C30_ReauthenticateStartsAfresh ==
  [][ \A t \in Tasks :
        /\ (pc[t] = "idle" /\ op'[t] = "reauthenticate") =>
             session' = new_session
        /\ (op[t] = "reauthenticate" /\ Answered(t, "login")) =>
             IF result'[t].ok
             THEN \A f \in SessionFields : session'[f] = last'[t].resp.session[f]
             ELSE session' = new_session
        /\ (op[t] = "authenticate" /\ Answered(t, "login") /\ result'[t].ok) =>
             \A f \in SessionFields :
               session'[f] = Overlaid(session, last'[t].resp.session)[f] ]_vars

\* reauthenticate() has succeeded on a login response with a key and nothing
\* else: the token is the new one, count and expiry are absent.
C30_Witness ==
  \E t \in Tasks :
    /\ op[t] = "reauthenticate"
    /\ pc[t] = "done"
    /\ result[t].ok
    /\ last[t].resp.session.count = None
    /\ last[t].resp.session.sub_exp = None
    /\ session = [key |-> last[t].resp.session.key, count |-> None, sub_exp |-> None]

====
